---- MODULE Spec2Model ----
(***************************************************************************)
(* Model of the trip post-processing (Trip.CombineWalks,                   *)
(* Trip.EachLegContextual) of sl/journeyplanner and of the site identifier *)
(* conversions of slidentifiers (ConvertIDToHafas, ConvertHafasToEFA), of   *)
(* Polyline.LatLng, of the StopFilter of sl/journeyplanner/v2, of the date *)
(* and time parameters of its TripsRequest.toParams, of the requests the   *)
(* journey-planner client calls send, and of the products parameter of     *)
(* the v1 TripsRequest.params.                                             *)
(***************************************************************************)
EXTENDS Integers, Sequences, FiniteSets, TLC

VARIABLES
    pc,                 \* position of the caller / running method
    legs,               \* trip.Legs
    entryLegs,          \* trip.Legs as it was when the running (or last) method was entered
    ret,                \* what the last method returned
    combinedLegs,       \* CombineWalks: local combinedLegs
    newLegs,            \* CombineWalks: local legs (the list that replaces trip.Legs)
    intermediate,       \* CombineWalks: local intermediate
    k,                  \* CombineWalks: position of the running range loop (1-based)
    i,                  \* EachLegContextual: loop index i (0-based, as in the code)
    legCount,           \* EachLegContextual: local legCount
    prevLeg,            \* EachLegContextual: the four context pointers
    prevTransportLeg,
    nextLeg,
    nextTransportLeg,
    calls,              \* the invocations of the visitor fn made by EachLegContextual, in order
    idpc,               \* position of the caller of the identifier conversions
    sid,                \* argument of ConvertIDToHafas
    prefix,             \* argument prefix of ConvertHafasToEFA
    hafasID,            \* result of ConvertIDToHafas / argument of ConvertHafasToEFA
    hafasErr,           \* ConvertIDToHafas returned a non-nil error
    efaID,              \* result of ConvertHafasToEFA
    efaErr,             \* ConvertHafasToEFA returned a non-nil error
    ppc,                \* Polyline.LatLng: position of the call
    crd,                \* Polyline.Crd
    delta,              \* Polyline.Delta
    path,               \* Polyline.LatLng: local path (<<>> stands for a nil element)
    pidx,               \* Polyline.LatLng: loop index i (0-based)
    fpc,                \* StopFilterFromString: position of the call
    fnames,             \* StopFilterFromString: argument s
    fidx,               \* StopFilterFromString: position of the range loop (1-based)
    sf,                 \* StopFilterFromString: local sf
    fret,               \* StopFilterFromString: what it returned
    tcheck,             \* the last lookup made through the two StopFilter tables
    qpc,                \* TripsRequest.toParams: position of the call
    reqAt,              \* TripsRequest.At
    params,             \* TripsRequest.toParams: the url.Values built
    cpc,                \* journey-planner client call: position of the call
    cop,                \* the client method called
    cname,              \* StopFinderSearchRequest.Name
    cprep,              \* outcome of the steps before the request is sent
    sent,               \* number of calls of httpClient.Do made by the call
    cresp,              \* what httpClient.Do produced
    cret,               \* what the client method returned
    rpc,                \* TripsRequest.params (v1): position of the call
    reqProducts,        \* TripsRequest.Products
    reqAvoid,           \* TripsRequest.AvoidProducts
    prodParam,          \* the query parameter products
    tripRest            \* the attributes of the Trip other than Legs

tripVars == <<pc, legs, entryLegs, ret, combinedLegs, newLegs, intermediate, k,
              i, legCount, prevLeg, prevTransportLeg, nextLeg, nextTransportLeg, calls>>
idVars == <<idpc, sid, prefix, hafasID, hafasErr, efaID, efaErr>>
polyVars == <<ppc, crd, delta, path, pidx>>
filterVars == <<fpc, fnames, fidx, sf, fret, tcheck>>
paramVars == <<qpc, reqAt, params>>
clientVars == <<cpc, cop, cname, cprep, sent, cresp, cret>>
productVars == <<rpc, reqProducts, reqAvoid, prodParam>>
restVars == <<tripRest>>
vars == <<tripVars, restVars, idVars, polyVars, filterVars, paramVars, clientVars, productVars>>

----------------------------------------------------------------------------
(* Bounds of the model *)

MaxLegs == 4

\* distances of the WALK legs of the input trips: both sides of the two
\* thresholds, and small values whose sums reach them
WalkDistances == {10, 20, 40, 41, 50, 150, 151}

\* what the visitor may return: nil or one of two distinct errors
VisitorResults == {"nil", "errA", "errB"}

----------------------------------------------------------------------------
(* Data *)

\* Leg{}: the zero value of Leg (Location is modelled by a stop number, 0 = Location{})
ZeroLeg == [Type |-> "", Distance |-> 0, Idx |-> 0, Origin |-> 0, Destination |-> 0]

\* a leg as decoded from a response: the n-th leg (n = 1, 2, ...) of a trip runs
\* from stop n to stop n+1 and carries the index n-1
MkLeg(type, dist, n) ==
    [Type |-> type, Distance |-> dist, Idx |-> n - 1, Origin |-> n, Destination |-> n + 1]

LegKinds == {<<"WALK", d>> : d \in WalkDistances} \cup {<<"BUS", 0>>}

TripInputs ==
    UNION {{[n \in 1..len |-> MkLeg(f[n][1], f[n][2], n)] : f \in [1..len -> LegKinds]}
           : len \in 0..MaxLegs}

\* the attributes of a decoded Trip other than Legs, and those of no trip
TripAttributes ==
    [Idx |-> "0", CtxRecon |-> "ctx", Checksum |-> "c0ffee", TripID |-> "C-0",
     Valid |-> "true", Duration |-> "PT30M", ServiceDays |-> <<"daily">>, Tariff |-> <<"A">>]

NoAttributes ==
    [Idx |-> "", CtxRecon |-> "", Checksum |-> "", TripID |-> "",
     Valid |-> "", Duration |-> "", ServiceDays |-> <<>>, Tariff |-> <<>>]

\* pointers to legs: &trip.Legs[at] (kind "elem") or the address of a Leg that
\* is not an element of trip.Legs (kind "alloc": &Leg{} or the address of a copy)
ElemPtr(at) == [kind |-> "elem", at |-> at, val |-> ZeroLeg]
AllocPtr(val) == [kind |-> "alloc", at |-> -1, val |-> val]
Deref(p, ls) == IF p.kind = "elem" THEN ls[p.at + 1] ELSE p.val

NoRet == [op |-> "none", err |-> "nil"]

----------------------------------------------------------------------------
(* Trip.CombineWalks *)

\* variant of MergeStep: the merged walk keeps the destination of its first leg
MergeStepKeepsDestination(combined, leg) ==
    IF leg.Type # "WALK"
    THEN Append(combined, leg)
    ELSE IF Len(combined) > 0 /\ combined[Len(combined)].Type = "WALK"
         THEN [combined EXCEPT ![Len(combined)] =
                  [@ EXCEPT !.Distance = @ + leg.Distance]]
         ELSE Append(combined, leg)

\* variant of MergeStep: every leg is appended, none is merged
MergeStepAppends(combined, leg) == Append(combined, leg)

\* one iteration of the first loop: the leg is appended, or merged into the
\* last element of combinedLegs when both are WALK legs
MergeStep(combined, leg) ==
    IF leg.Type # "WALK"
    THEN Append(combined, leg)
    ELSE IF Len(combined) > 0 /\ combined[Len(combined)].Type = "WALK"
         THEN [combined EXCEPT ![Len(combined)] =
                  [@ EXCEPT !.Distance = @ + leg.Distance,
                            !.Destination = leg.Destination]]
         ELSE Append(combined, leg)

\* variant of NextIntermediate: intermediate is never set
NextIntermediateNever(inter, leg, pos, n) == FALSE

\* variant of NextIntermediate: the last leg is not treated apart
NextIntermediateNoLast(inter, leg, pos, n) ==
    IF leg.Type # "WALK" THEN TRUE ELSE inter

\* the value of intermediate after the two assignments at the head of the
\* second loop's body; pos is the 1-based position, n the length of combinedLegs
NextIntermediate(inter, leg, pos, n) ==
    LET a == IF leg.Type # "WALK" THEN TRUE ELSE inter
    IN  IF n - 1 = pos - 1 THEN FALSE ELSE a

\* variant of KeepLeg: the type of the leg is not tested
KeepLegByDistance(leg, inter) ==
    \/ (~inter /\ leg.Distance > 40)
    \/ (inter /\ leg.Distance > 150)

\* variant of KeepLeg: the thresholds are inclusive
KeepLegInclusive(leg, inter) ==
    \/ leg.Type # "WALK"
    \/ (~inter /\ leg.Distance >= 40)
    \/ (inter /\ leg.Distance >= 150)

\* the condition under which the second loop appends the leg
KeepLeg(leg, inter) ==
    \/ leg.Type # "WALK"
    \/ (~inter /\ leg.Distance > 40)
    \/ (inter /\ leg.Distance > 150)

\* variant of ResultLegs: the merged list is stored, the pruned one is lost
ResultLegsCombined(combined, pruned) == combined

\* the list that replaces trip.Legs when CombineWalks returns
ResultLegs(combined, pruned) == pruned

RECURSIVE MergeAll(_, _)
\* combinedLegs after the first n iterations of the first loop over ls
MergeAll(ls, n) ==
    IF n = 0 THEN <<>> ELSE MergeStep(MergeAll(ls, n - 1), ls[n])

RECURSIVE PruneAll(_, _)
\* the locals legs and intermediate after the first n iterations of the
\* second loop over the merged list cl
PruneAll(cl, n) ==
    IF n = 0 THEN [legs |-> <<>>, intermediate |-> FALSE]
    ELSE LET before == PruneAll(cl, n - 1)
             inter == NextIntermediate(before.intermediate, cl[n], n, Len(cl))
         IN  [legs |-> IF KeepLeg(cl[n], inter)
                       THEN Append(before.legs, cl[n])
                       ELSE before.legs,
              intermediate |-> inter]

\* trip.Legs after a whole call of CombineWalks on the leg list ls
CombineWalksResult(ls) ==
    LET cl == MergeAll(ls, Len(ls))
    IN  ResultLegs(cl, PruneAll(cl, Len(cl)).legs)

CWEnter ==
    /\ pc = "idle"
    /\ pc' = "cw_merge"
    /\ entryLegs' = legs
    /\ ret' = NoRet
    /\ calls' = <<>>
    /\ combinedLegs' = <<>>
    /\ k' = 1
    /\ UNCHANGED <<legs, newLegs, intermediate, i, legCount,
                   prevLeg, prevTransportLeg, nextLeg, nextTransportLeg>>

CWMergeStep ==
    /\ pc = "cw_merge"
    /\ k <= Len(legs)
    /\ combinedLegs' = MergeStep(combinedLegs, legs[k])
    /\ k' = k + 1
    /\ UNCHANGED <<pc, legs, entryLegs, ret, newLegs, intermediate, i, legCount,
                   prevLeg, prevTransportLeg, nextLeg, nextTransportLeg, calls>>

CWMergeDone ==
    /\ pc = "cw_merge"
    /\ k > Len(legs)
    /\ pc' = "cw_prune"
    /\ newLegs' = <<>>
    /\ intermediate' = FALSE
    /\ k' = 1
    /\ UNCHANGED <<legs, entryLegs, ret, combinedLegs, i, legCount,
                   prevLeg, prevTransportLeg, nextLeg, nextTransportLeg, calls>>

CWPruneStep ==
    /\ pc = "cw_prune"
    /\ k <= Len(combinedLegs)
    /\ intermediate' = NextIntermediate(intermediate, combinedLegs[k], k, Len(combinedLegs))
    /\ newLegs' = IF KeepLeg(combinedLegs[k], intermediate')
                  THEN Append(newLegs, combinedLegs[k])
                  ELSE newLegs
    /\ k' = k + 1
    /\ UNCHANGED <<pc, legs, entryLegs, ret, combinedLegs, i, legCount,
                   prevLeg, prevTransportLeg, nextLeg, nextTransportLeg, calls>>

CWReturn ==
    /\ pc = "cw_prune"
    /\ k > Len(combinedLegs)
    /\ legs' = ResultLegs(combinedLegs, newLegs)
    /\ pc' = "idle"
    /\ ret' = [op |-> "CombineWalks", err |-> "nil"]
    /\ combinedLegs' = <<>>
    /\ newLegs' = <<>>
    /\ intermediate' = FALSE
    /\ k' = 0
    /\ UNCHANGED <<entryLegs, i, legCount,
                   prevLeg, prevTransportLeg, nextLeg, nextTransportLeg, calls>>

----------------------------------------------------------------------------
(* Trip.EachLegContextual *)

RECURSIVE ScanTransport(_, _)
\* the inner loop over trip.Legs[i+1:]: the 1-based position of the first leg
\* at or after position from whose type is not WALK, 0 when the loop ends
\* without a break
ScanTransport(ls, from) ==
    IF from > Len(ls) THEN 0
    ELSE IF ls[from].Type # "WALK" THEN from
    ELSE ScanTransport(ls, from + 1)

\* nextLeg as the visitor gets it at index at
LookaheadNext(ls, at, count, cur) ==
    IF at < count THEN ElemPtr(at + 1) ELSE cur

\* nextTransportLeg as the visitor gets it at index at: the address of the
\* inner loop's variable, which holds a copy of the leg found
LookaheadTransport(ls, at, count, cur) ==
    IF at < count /\ ScanTransport(ls, at + 2) # 0
    THEN AllocPtr(ls[ScanTransport(ls, at + 2)])
    ELSE cur

\* variant of AdvancePrevTransport: the type of the visited leg is not tested
AdvancePrevTransportAny(ls, at, cur) == ElemPtr(at)

\* prevTransportLeg after the visit of index at
AdvancePrevTransport(ls, at, cur) ==
    IF ls[at + 1].Type # "WALK" THEN ElemPtr(at) ELSE cur

\* variant of RangeHasNext: the loop stops one leg early
RangeHasNextShort(idx, ls) == idx < Len(ls) - 1

\* the outer range loop has an index idx left to visit
RangeHasNext(idx, ls) == idx < Len(ls)

\* variant of PropagateErr: the visitor's error is replaced by a wrapping one
PropagateErrWrapped(err) == "wrapped"

\* the value EachLegContextual returns when the visitor returned err
PropagateErr(err) == err

CallRecord(err) ==
    [i |-> i, err |-> err, leg |-> ElemPtr(i), prevLeg |-> prevLeg, prevTransportLeg |-> prevTransportLeg,
     nextLeg |-> nextLeg, nextTransportLeg |-> nextTransportLeg]

ResetELCLocals ==
    /\ i' = 0
    /\ legCount' = 0
    /\ prevLeg' = AllocPtr(ZeroLeg)
    /\ prevTransportLeg' = AllocPtr(ZeroLeg)
    /\ nextLeg' = AllocPtr(ZeroLeg)
    /\ nextTransportLeg' = AllocPtr(ZeroLeg)

ELCEnter ==
    /\ pc = "idle"
    /\ entryLegs' = legs
    /\ calls' = <<>>
    /\ IF Len(legs) = 0
       THEN /\ pc' = "idle"
            /\ ret' = [op |-> "EachLegContextual", err |-> "nil"]
            /\ ResetELCLocals
       ELSE /\ pc' = "elc_loop"
            /\ ret' = NoRet
            /\ prevLeg' = AllocPtr(ZeroLeg)
            /\ prevTransportLeg' = AllocPtr(ZeroLeg)
            /\ nextLeg' = AllocPtr(ZeroLeg)
            /\ nextTransportLeg' = AllocPtr(ZeroLeg)
            /\ legCount' = Len(legs) - 1
            /\ i' = 0
    /\ UNCHANGED <<legs, combinedLegs, newLegs, intermediate, k>>

ELCLookahead ==
    /\ pc = "elc_loop"
    /\ RangeHasNext(i, legs)
    /\ nextLeg' = LookaheadNext(legs, i, legCount, nextLeg)
    /\ nextTransportLeg' = LookaheadTransport(legs, i, legCount, nextTransportLeg)
    /\ pc' = "elc_call"
    /\ UNCHANGED <<legs, entryLegs, ret, combinedLegs, newLegs, intermediate, k,
                   i, legCount, prevLeg, prevTransportLeg, calls>>

ELCVisit(err) ==
    /\ pc = "elc_call"
    /\ calls' = Append(calls, CallRecord(err))
    /\ IF err # "nil"
       THEN /\ pc' = "idle"
            /\ ret' = [op |-> "EachLegContextual", err |-> PropagateErr(err)]
            /\ ResetELCLocals
       ELSE /\ pc' = "elc_loop"
            /\ nextLeg' = AllocPtr(ZeroLeg)
            /\ nextTransportLeg' = AllocPtr(ZeroLeg)
            /\ prevLeg' = ElemPtr(i)
            /\ prevTransportLeg' = AdvancePrevTransport(legs, i, prevTransportLeg)
            /\ i' = i + 1
            /\ UNCHANGED <<ret, legCount>>
    /\ UNCHANGED <<legs, entryLegs, combinedLegs, newLegs, intermediate, k>>

ELCReturn ==
    /\ pc = "elc_loop"
    /\ ~RangeHasNext(i, legs)
    /\ pc' = "idle"
    /\ ret' = [op |-> "EachLegContextual", err |-> "nil"]
    /\ ResetELCLocals
    /\ UNCHANGED <<legs, entryLegs, combinedLegs, newLegs, intermediate, k, calls>>

----------------------------------------------------------------------------
(* The components a specification does not run stay as they are here *)

NoFilterRet == [value |-> 0, err |-> "none"]
NoCheck ==
    [table |-> "none", name |-> "", value |-> 0, found |-> FALSE,
     backName |-> "", backValue |-> 0]
NoTime == [utc |-> 0, zone |-> "UTC"]
NoParams == [itd_date |-> <<>>, itd_time |-> <<>>]

InitNoPolyline ==
    /\ ppc = "off"
    /\ crd = <<>>
    /\ delta = FALSE
    /\ path = <<>>
    /\ pidx = 0

InitNoFilter ==
    /\ fpc = "off"
    /\ fnames = <<>>
    /\ fidx = 0
    /\ sf = 0
    /\ fret = NoFilterRet
    /\ tcheck = NoCheck

InitNoParams ==
    /\ qpc = "off"
    /\ reqAt = NoTime
    /\ params = NoParams

NoResponse == [transport |-> "none", status |-> 0, read |-> "none", body |-> "none"]
NoClientRet == [returned |-> FALSE, err |-> "nil"]
NoProductsParam == [set |-> FALSE, value |-> 0]

InitNoClient ==
    /\ cpc = "off"
    /\ cop = "none"
    /\ cname = ""
    /\ cprep = "none"
    /\ sent = 0
    /\ cresp = NoResponse
    /\ cret = NoClientRet

InitNoProducts ==
    /\ rpc = "off"
    /\ reqProducts = <<>>
    /\ reqAvoid = <<>>
    /\ prodParam = NoProductsParam

exceptTrip == <<restVars, idVars, polyVars, filterVars, paramVars, clientVars, productVars>>
exceptIds == <<tripVars, restVars, polyVars, filterVars, paramVars, clientVars, productVars>>

----------------------------------------------------------------------------
(* Specification of the trip post-processor *)

InitIdle ==
    /\ idpc = "off"
    /\ sid = <<>>
    /\ prefix = <<>>
    /\ hafasID = <<>>
    /\ hafasErr = FALSE
    /\ efaID = <<>>
    /\ efaErr = FALSE

InitTrip ==
    /\ pc = "idle"
    /\ tripRest = TripAttributes
    /\ legs \in TripInputs
    /\ entryLegs = <<>>
    /\ ret = NoRet
    /\ combinedLegs = <<>>
    /\ newLegs = <<>>
    /\ intermediate = FALSE
    /\ k = 0
    /\ i = 0
    /\ legCount = 0
    /\ prevLeg = AllocPtr(ZeroLeg)
    /\ prevTransportLeg = AllocPtr(ZeroLeg)
    /\ nextLeg = AllocPtr(ZeroLeg)
    /\ nextTransportLeg = AllocPtr(ZeroLeg)
    /\ calls = <<>>
    /\ InitIdle
    /\ InitNoPolyline
    /\ InitNoFilter
    /\ InitNoParams
    /\ InitNoClient
    /\ InitNoProducts

NextTrip ==
    \/ CWEnter /\ UNCHANGED exceptTrip
    \/ CWMergeStep /\ UNCHANGED exceptTrip
    \/ CWMergeDone /\ UNCHANGED exceptTrip
    \/ CWPruneStep /\ UNCHANGED exceptTrip
    \/ CWReturn /\ UNCHANGED exceptTrip
    \/ ELCEnter /\ UNCHANGED exceptTrip
    \/ ELCLookahead /\ UNCHANGED exceptTrip
    \/ (\E err \in VisitorResults : ELCVisit(err)) /\ UNCHANGED exceptTrip
    \/ ELCReturn /\ UNCHANGED exceptTrip

SpecTrip == InitTrip /\ [][NextTrip]_vars

----------------------------------------------------------------------------
(* EachLegContextual on a trip that CombineWalks replaces the leg list of  *)
(* while the iteration runs: from inside the visitor, or from another      *)
(* thread between two steps (of the outcomes of that data race, the one    *)
(* where the new list becomes visible as a whole).  The range loop runs    *)
(* over the list the trip had when the loop began (entryLegs), the index   *)
(* expressions trip.Legs[i] and trip.Legs[i+1] read the list the trip has  *)
(* now; an index outside it ends the call in a run-time panic.             *)

\* what the visitor may return here: nil or an error
SharedVisitorResults == {"nil", "errA"}

\* variant of HasNextLeg: the last index is taken to have a next leg
HasNextLegInclusive(at, count) == at <= count

\* the test i < legCount that guards the reading of trip.Legs[i+1]
HasNextLeg(at, count) == at < count

\* the index at (0-based) lies outside the list ls
IndexOutOfRange(ls, at) == at >= Len(ls)

\* the head of the loop body: leg := &trip.Legs[i] and the lookahead
SharedLookahead ==
    /\ pc = "elc_loop"
    /\ RangeHasNext(i, entryLegs)
    /\ IF \/ IndexOutOfRange(legs, i)
          \/ (HasNextLeg(i, legCount) /\ IndexOutOfRange(legs, i + 1))
       THEN /\ pc' = "panic"
            /\ UNCHANGED <<nextLeg, nextTransportLeg>>
       ELSE /\ pc' = "elc_call"
            /\ nextLeg' = LookaheadNext(legs, i, legCount, nextLeg)
            /\ nextTransportLeg' = LookaheadTransport(legs, i, legCount, nextTransportLeg)
    /\ UNCHANGED <<legs, entryLegs, ret, combinedLegs, newLegs, intermediate, k,
                   i, legCount, prevLeg, prevTransportLeg, calls>>

\* the invocation of the visitor, which calls trip.CombineWalks() when
\* combine is true, and the rest of the loop body
SharedVisit(err, combine) ==
    /\ pc = "elc_call"
    /\ legs' = IF combine THEN CombineWalksResult(legs) ELSE legs
    /\ calls' = Append(calls, CallRecord(err) @@ [combined |-> combine])
    /\ IF err # "nil"
       THEN /\ pc' = "idle"
            /\ ret' = [op |-> "EachLegContextual", err |-> PropagateErr(err)]
            /\ ResetELCLocals
       ELSE IF IndexOutOfRange(legs', i)
       THEN /\ pc' = "panic"
            /\ nextLeg' = AllocPtr(ZeroLeg)
            /\ nextTransportLeg' = AllocPtr(ZeroLeg)
            /\ UNCHANGED <<ret, i, legCount, prevLeg, prevTransportLeg>>
       ELSE /\ pc' = "elc_loop"
            /\ nextLeg' = AllocPtr(ZeroLeg)
            /\ nextTransportLeg' = AllocPtr(ZeroLeg)
            /\ prevLeg' = ElemPtr(i)
            /\ prevTransportLeg' = AdvancePrevTransport(legs', i, prevTransportLeg)
            /\ i' = i + 1
            /\ UNCHANGED <<ret, legCount>>
    /\ UNCHANGED <<entryLegs, combinedLegs, newLegs, intermediate, k>>

\* another thread's CombineWalks on the same trip assigns trip.Legs between
\* two steps of the iteration
OtherCombineWalks ==
    /\ pc \in {"elc_loop", "elc_call"}
    /\ legs' = CombineWalksResult(legs)
    /\ legs' # legs
    /\ UNCHANGED <<pc, entryLegs, ret, combinedLegs, newLegs, intermediate, k,
                   i, legCount, prevLeg, prevTransportLeg, nextLeg, nextTransportLeg, calls>>

SharedReturn ==
    /\ pc = "elc_loop"
    /\ ~RangeHasNext(i, entryLegs)
    /\ pc' = "idle"
    /\ ret' = [op |-> "EachLegContextual", err |-> "nil"]
    /\ ResetELCLocals
    /\ UNCHANGED <<legs, entryLegs, combinedLegs, newLegs, intermediate, k, calls>>

NextShared ==
    \/ ELCEnter /\ UNCHANGED exceptTrip
    \/ SharedLookahead /\ UNCHANGED exceptTrip
    \/ (\E err \in SharedVisitorResults, combine \in BOOLEAN : SharedVisit(err, combine))
          /\ UNCHANGED exceptTrip
    \/ OtherCombineWalks /\ UNCHANGED exceptTrip
    \/ SharedReturn /\ UNCHANGED exceptTrip

SpecShared == InitTrip /\ [][NextShared]_vars

----------------------------------------------------------------------------
(* slidentifiers: strings are sequences of bytes *)

MaxSidLen == 8

AsciiDigits == <<"0", "1", "2", "3", "4", "5", "6", "7", "8", "9">>
IsAsciiDigit(b) == \E d \in 1..10 : AsciiDigits[d] = b
DigitValue(b) == (CHOOSE d \in 1..10 : AsciiDigits[d] = b) - 1

\* the bytes of the inputs: three decimal digits, a letter and the two signs
SidDigits == {"0", "1", "4"}
SidOthers == {"a", "-", "+"}

Strings(alphabet, len) == [1..len -> alphabet]

\* the short IDs tried: the empty string, every digit string of 1..MaxSidLen
\* bytes, and these with the first or the last byte replaced by a byte that is
\* no digit
SidInputs ==
    LET numeric == UNION {Strings(SidDigits, len) : len \in 1..MaxSidLen}
    IN  {<<>>} \cup numeric
        \cup {[d EXCEPT ![1] = c] : d \in numeric, c \in SidOthers}
        \cup {[d EXCEPT ![Len(d)] = c] : d \in numeric, c \in SidOthers}

\* the EFA prefixes tried: the SL prefix "909100100" and "123456789"
Prefixes == {<<"9", "0", "9", "1", "0", "0", "1", "0", "0">>,
             <<"1", "2", "3", "4", "5", "6", "7", "8", "9">>}

\* Go's integer division and remainder truncate towards zero
GoDiv(a, b) == IF a >= 0 THEN a \div b ELSE -((-a) \div b)
GoRem(a, b) == a - b * GoDiv(a, b)

RECURSIVE DigitsValue(_)
\* the value of a string of decimal digits
DigitsValue(ds) ==
    IF Len(ds) = 0 THEN 0
    ELSE 10 * DigitsValue(SubSeq(ds, 1, Len(ds) - 1)) + DigitValue(ds[Len(ds)])

\* strconv.Atoi: an optional sign followed by one or more decimal digits
\* (the strings of the model are too short to overflow int)
AtoiBody(str) ==
    IF Len(str) > 0 /\ str[1] \in {"-", "+"} THEN Tail(str) ELSE str
AtoiOk(str) ==
    /\ Len(AtoiBody(str)) > 0
    /\ \A n \in 1..Len(AtoiBody(str)) : IsAsciiDigit(AtoiBody(str)[n])
AtoiValue(str) ==
    IF str[1] = "-" THEN -DigitsValue(AtoiBody(str)) ELSE DigitsValue(AtoiBody(str))

RECURSIVE NatDigits(_)
\* the decimal digits of a natural number
NatDigits(n) ==
    IF n < 10 THEN <<AsciiDigits[n + 1]>>
    ELSE Append(NatDigits(n \div 10), AsciiDigits[(n % 10) + 1])

RECURSIVE Zeros(_)
Zeros(n) == IF n <= 0 THEN <<>> ELSE <<"0">> \o Zeros(n - 1)

\* fmt's %0<width>d: the sign, then zeros up to the width, then the digits
FormatZeroPadded(n, width) ==
    LET ds == NatDigits(IF n < 0 THEN -n ELSE n)
        sign == IF n < 0 THEN <<"-">> ELSE <<>>
    IN  sign \o Zeros(width - Len(sign) - Len(ds)) \o ds

\* variant of HafasLayout: the two leading digits are stored as the HAFAS
\* layout XFGYEDCBA documents them, second digit (F) first
HafasLayoutSwapped(firstTwoDigits, lastFiveDigits) ==
    LET two == FormatZeroPadded(firstTwoDigits, 2)
    IN  <<"3", two[2], two[1], "1">> \o FormatZeroPadded(lastFiveDigits, 5)

\* Sprintf("3%02d1%05d", firstTwoDigits, lastFiveDigits)
HafasLayout(firstTwoDigits, lastFiveDigits) ==
    <<"3">> \o FormatZeroPadded(firstTwoDigits, 2) \o <<"1">>
            \o FormatZeroPadded(lastFiveDigits, 5)

\* the test that makes ConvertIDToHafas return its argument unchanged
PassesThrough(str) == Len(str) > 7

\* ConvertIDToHafas: the ID returned and whether the error is non-nil
ConvertIDToHafas(str) ==
    IF PassesThrough(str) THEN [id |-> str, err |-> FALSE]
    ELSE IF ~AtoiOk(str) THEN [id |-> <<>>, err |-> TRUE]
    ELSE [id |-> HafasLayout(GoDiv(AtoiValue(str), 100000), GoRem(AtoiValue(str), 100000)),
          err |-> FALSE]

\* the runes a range loop over the string yields: an ASCII byte is its own
\* rune, the bytes D9 A3 are U+0663 (ARABIC-INDIC DIGIT THREE), a byte that
\* starts no valid encoding is U+FFFD
RECURSIVE Runes(_)
Runes(str) ==
    IF Len(str) = 0 THEN <<>>
    ELSE IF Len(str) >= 2 /\ str[1] = "xD9" /\ str[2] = "xA3"
         THEN <<"U+0663">> \o Runes(SubSeq(str, 3, Len(str)))
    ELSE IF str[1] \in {"xD9", "xA3"}
         THEN <<"U+FFFD">> \o Runes(Tail(str))
    ELSE <<str[1]>> \o Runes(Tail(str))

\* unicode.IsDigit
IsDigitRune(r) == IsAsciiDigit(r) \/ r = "U+0663"

AllDigitRunes(str) == \A n \in 1..Len(Runes(str)) : IsDigitRune(Runes(str)[n])

\* variant of ExtractSiteNumber: positions 1 and 2 are taken in their order
ExtractSiteNumberInOrder(h) == <<h[2], h[3], h[5], h[6], h[7], h[8], h[9]>>

\* the bytes at the 0-based positions 2, 1, 4, 5, 6, 7, 8
ExtractSiteNumber(h) == <<h[3], h[2], h[5], h[6], h[7], h[8], h[9]>>

\* ConvertHafasToEFA: the ID returned and whether the error is non-nil
ConvertHafasToEFA(h, pre) ==
    IF Len(h) # 9 THEN [id |-> <<>>, err |-> TRUE]
    ELSE IF h[1] # "3" THEN [id |-> <<>>, err |-> TRUE]
    ELSE IF ~AllDigitRunes(h) THEN [id |-> <<>>, err |-> TRUE]
    ELSE IF ~AtoiOk(ExtractSiteNumber(h)) THEN [id |-> <<>>, err |-> TRUE]
    ELSE IF Len(pre) # 9 THEN [id |-> <<>>, err |-> TRUE]
    ELSE IF ~AllDigitRunes(pre) THEN [id |-> <<>>, err |-> TRUE]
    ELSE [id |-> pre \o ExtractSiteNumber(h), err |-> FALSE]

\* the caller converts a stop's ID with ConvertIDToHafas ...
CallConvertIDToHafas ==
    /\ idpc = "start"
    /\ hafasID' = ConvertIDToHafas(sid).id
    /\ hafasErr' = ConvertIDToHafas(sid).err
    /\ idpc' = "hafas"
    /\ UNCHANGED <<sid, prefix, efaID, efaErr>>

\* ... and, when that gave no error, the result with ConvertHafasToEFA
CallConvertHafasToEFA(pre) ==
    /\ idpc = "hafas"
    /\ ~hafasErr
    /\ prefix' = pre
    /\ efaID' = ConvertHafasToEFA(hafasID, pre).id
    /\ efaErr' = ConvertHafasToEFA(hafasID, pre).err
    /\ idpc' = "efa"
    /\ UNCHANGED <<sid, hafasID, hafasErr>>

InitNoTrip ==
    /\ pc = "off"
    /\ tripRest = NoAttributes
    /\ legs = <<>>
    /\ entryLegs = <<>>
    /\ ret = NoRet
    /\ combinedLegs = <<>>
    /\ newLegs = <<>>
    /\ intermediate = FALSE
    /\ k = 0
    /\ i = 0
    /\ legCount = 0
    /\ prevLeg = AllocPtr(ZeroLeg)
    /\ prevTransportLeg = AllocPtr(ZeroLeg)
    /\ nextLeg = AllocPtr(ZeroLeg)
    /\ nextTransportLeg = AllocPtr(ZeroLeg)
    /\ calls = <<>>

InitIds ==
    /\ idpc = "start"
    /\ sid \in SidInputs
    /\ prefix = <<>>
    /\ hafasID = <<>>
    /\ hafasErr = FALSE
    /\ efaID = <<>>
    /\ efaErr = FALSE
    /\ InitNoTrip
    /\ InitNoPolyline
    /\ InitNoFilter
    /\ InitNoParams
    /\ InitNoClient
    /\ InitNoProducts

NextIds ==
    \/ CallConvertIDToHafas /\ UNCHANGED exceptIds
    \/ (\E pre \in Prefixes : CallConvertHafasToEFA(pre)) /\ UNCHANGED exceptIds

SpecIds == InitIds /\ [][NextIds]_vars

----------------------------------------------------------------------------
(* ConvertHafasToEFA called with the caller's own arguments *)

ExampleHafas == <<"3", "0", "0", "1", "0", "4", "4", "0", "0">>

\* U+0663 ARABIC-INDIC DIGIT THREE in UTF-8
ArabicThree == <<"xD9", "xA3">>

\* the HAFAS IDs tried: '3' followed by 8 decimal digits, and malformed ones:
\* wrong lengths, another first digit, a byte that is no digit at any
\* position, a two-byte digit at any position
HafasInputs ==
    {<<"3">> \o t : t \in Strings({"0", "4"}, 8)}
    \cup {ExampleHafas, <<>>, <<"1", "2", "3">>, SubSeq(ExampleHafas, 1, 8), ExampleHafas \o <<"0">>}
    \cup {[ExampleHafas EXCEPT ![1] = c] : c \in {"4", "0", "a"}}
    \cup {[ExampleHafas EXCEPT ![p] = c] : p \in 2..9, c \in SidOthers}
    \cup {SubSeq(ExampleHafas, 1, p - 1) \o ArabicThree \o SubSeq(ExampleHafas, p + 2, 9)
          : p \in 2..8}

\* the prefixes tried: the two of Prefixes, and malformed ones: wrong lengths,
\* a letter, and 9 bytes that hold a two-byte digit and 7 decimal digits
PrefixInputs ==
    Prefixes
    \cup {<<>>, <<"9", "0", "9", "1", "0", "0", "1", "0">>,
          <<"9", "0", "9", "1", "0", "0", "1", "0", "0", "0">>,
          <<"9", "0", "9", "1", "0", "0", "1", "0", "a">>,
          ArabicThree \o <<"0", "9", "1", "0", "0", "1", "0">>,
          <<"9", "0", "9", "1", "0", "0", "1">> \o ArabicThree}

\* the caller converts a HAFAS ID of its own with ConvertHafasToEFA
CallConvertHafasToEFADirect ==
    /\ idpc = "direct"
    /\ efaID' = ConvertHafasToEFA(hafasID, prefix).id
    /\ efaErr' = ConvertHafasToEFA(hafasID, prefix).err
    /\ idpc' = "efa_direct"
    /\ UNCHANGED <<sid, prefix, hafasID, hafasErr>>

InitEfa ==
    /\ idpc = "direct"
    /\ sid = <<>>
    /\ hafasID \in HafasInputs
    /\ prefix \in PrefixInputs
    /\ hafasErr = FALSE
    /\ efaID = <<>>
    /\ efaErr = FALSE
    /\ InitNoTrip
    /\ InitNoPolyline
    /\ InitNoFilter
    /\ InitNoParams
    /\ InitNoClient
    /\ InitNoProducts

NextEfa == CallConvertHafasToEFADirect /\ UNCHANGED exceptIds

SpecEfa == InitEfa /\ [][NextEfa]_vars

----------------------------------------------------------------------------
(* Polyline.LatLng; the float64 coordinates are modelled by integers *)

MaxCrd == 4

\* the values of Polyline.Crd tried
CrdValues == {-1, 1, 2, 3, 4}

CrdInputs == UNION {[1..len -> CrdValues] : len \in 0..MaxCrd}

\* make([][]float64, len(p.Crd)/2): every element is nil
MakePath(c) == [n \in 1..(Len(c) \div 2) |-> <<>>]

\* the index x is outside path: the assignment path[x] = ... panics
OutOfRange(pth, x) == x >= Len(pth)

\* path after the statement if y == 0 { path[x] = make([]float64, 2) }
PathAfterMake(pth, x, y) ==
    IF y = 0 THEN [pth EXCEPT ![x + 1] = <<0, 0>>] ELSE pth

\* variant of CellValue: the value is stored as it is, nothing is added
CellValueAbsolute(pth, idx, coord) == coord

\* the value stored in path[x][y] for the index idx of the loop
CellValue(pth, idx, coord) ==
    IF idx < 2 THEN coord
    ELSE pth[(idx \div 2) - 1 + 1][(idx % 2) + 1] + coord

LatLngEnter ==
    /\ ppc = "start"
    /\ path' = MakePath(crd)
    /\ pidx' = 0
    /\ ppc' = "loop"
    /\ UNCHANGED <<crd, delta>>

\* one iteration of the loop; an index out of range ends the call in a
\* run-time panic
LatLngStep ==
    /\ ppc = "loop"
    /\ pidx < Len(crd)
    /\ LET x == pidx \div 2
           y == pidx % 2
       IN  IF y = 0 /\ OutOfRange(path, x)
           THEN /\ ppc' = "panic"
                /\ UNCHANGED <<path, pidx>>
           ELSE /\ path' = [PathAfterMake(path, x, y) EXCEPT ![x + 1][y + 1] =
                                CellValue(PathAfterMake(path, x, y), pidx, crd[pidx + 1])]
                /\ pidx' = pidx + 1
                /\ UNCHANGED ppc
    /\ UNCHANGED <<crd, delta>>

LatLngReturn ==
    /\ ppc = "loop"
    /\ pidx >= Len(crd)
    /\ ppc' = "done"
    /\ UNCHANGED <<crd, delta, path, pidx>>

exceptPoly == <<tripVars, restVars, idVars, filterVars, paramVars, clientVars, productVars>>

InitPolyline ==
    /\ ppc = "start"
    /\ crd \in CrdInputs
    /\ delta \in BOOLEAN
    /\ path = <<>>
    /\ pidx = 0
    /\ InitNoTrip
    /\ InitIdle
    /\ InitNoFilter
    /\ InitNoParams
    /\ InitNoClient
    /\ InitNoProducts

NextPolyline ==
    \/ LatLngEnter /\ UNCHANGED exceptPoly
    \/ LatLngStep /\ UNCHANGED exceptPoly
    \/ LatLngReturn /\ UNCHANGED exceptPoly

SpecPolyline == InitPolyline /\ [][NextPolyline]_vars

----------------------------------------------------------------------------
(* StopFilter, its two tables and StopFilterFromString *)

MaxNames == 3

StopFilterNone == 0
StopFilterSuburb == 1
StopFilterStop == 2
StopFilterStreet == 4
StopFilterAddress == 8
StopFilterUnknown == 16
StopFilterPointOfInterest == 32

stopFilterNameToValue ==
    "none" :> StopFilterNone @@
    "suburb" :> StopFilterSuburb @@
    "stop" :> StopFilterStop @@
    "street" :> StopFilterStreet @@
    "singlehouse" :> StopFilterAddress @@
    "unknown2" :> StopFilterUnknown @@
    "poi" :> StopFilterPointOfInterest

\* variant of stopFilterValueToName: the last entry repeats the name of
\* the entry before it
stopFilterValueToNameRepeated ==
    StopFilterNone :> "none" @@
    StopFilterSuburb :> "suburb" @@
    StopFilterStop :> "stop" @@
    StopFilterStreet :> "street" @@
    StopFilterAddress :> "singlehouse" @@
    StopFilterUnknown :> "unknown2" @@
    StopFilterPointOfInterest :> "unknown2"

stopFilterValueToName ==
    StopFilterNone :> "none" @@
    StopFilterSuburb :> "suburb" @@
    StopFilterStop :> "stop" @@
    StopFilterStreet :> "street" @@
    StopFilterAddress :> "singlehouse" @@
    StopFilterUnknown :> "unknown2" @@
    StopFilterPointOfInterest :> "poi"

RECURSIVE BitOr(_, _)
\* a | b on non-negative integers
BitOr(a, b) ==
    IF a = 0 THEN b
    ELSE IF b = 0 THEN a
    ELSE (IF a % 2 = 1 \/ b % 2 = 1 THEN 1 ELSE 0) + 2 * BitOr(a \div 2, b \div 2)

RECURSIVE BitAnd(_, _)
\* a & b on non-negative integers
BitAnd(a, b) ==
    IF a = 0 \/ b = 0 THEN 0
    ELSE (IF a % 2 = 1 /\ b % 2 = 1 THEN 1 ELSE 0) + 2 * BitAnd(a \div 2, b \div 2)

\* variant of Has: the two values are compared
HasEqual(filter0, filter) == filter0 = filter

\* StopFilter.Has
Has(filter0, filter) == BitAnd(filter0, filter) # 0

\* variant of Add: the values are added
AddArithmetic(filter0, filter) == filter0 + filter

\* StopFilter.Add
Add(filter0, filter) == BitOr(filter0, filter)

\* the names StopFilterFromString is called with
FilterNameInputs == DOMAIN stopFilterNameToValue \cup {"bogus", "Stop"}

FilterLists == UNION {[1..len -> FilterNameInputs] : len \in 0..MaxNames}

FromStringEnter ==
    /\ fpc = "start"
    /\ IF Len(fnames) = 0
       THEN /\ fret' = [value |-> -1, err |-> "no stop filter provided"]
            /\ fpc' = "done"
            /\ UNCHANGED <<sf, fidx>>
       ELSE /\ sf' = StopFilterNone
            /\ fidx' = 0
            /\ fpc' = "loop"
            /\ UNCHANGED fret
    /\ UNCHANGED <<fnames, tcheck>>

\* one iteration of the loop over the names
FromStringStep ==
    /\ fpc = "loop"
    /\ fidx < Len(fnames)
    /\ LET name == fnames[fidx + 1]
       IN  IF name \in DOMAIN stopFilterNameToValue
           THEN /\ sf' = Add(sf, stopFilterNameToValue[name])
                /\ fidx' = fidx + 1
                /\ UNCHANGED <<fpc, fret>>
           ELSE /\ fret' = [value |-> -1, err |-> "invalid stop filter"]
                /\ fpc' = "done"
                /\ UNCHANGED <<sf, fidx>>
    /\ UNCHANGED <<fnames, tcheck>>

FromStringReturn ==
    /\ fpc = "loop"
    /\ fidx >= Len(fnames)
    /\ fret' = [value |-> sf, err |-> "nil"]
    /\ fpc' = "done"
    /\ UNCHANGED <<fnames, fidx, sf, tcheck>>

\* the first loop of TestAllValuesAccountedFor, for one entry of the table
CheckNameToValue(name) ==
    /\ name \in DOMAIN stopFilterNameToValue
    /\ LET v == stopFilterNameToValue[name]
           ok == v \in DOMAIN stopFilterValueToName
       IN  tcheck' = [table |-> "nameToValue", name |-> name, value |-> v,
                      found |-> ok,
                      backName |-> IF ok THEN stopFilterValueToName[v] ELSE "",
                      backValue |-> v]
    /\ UNCHANGED <<fpc, fnames, fidx, sf, fret>>

\* the second loop of TestAllValuesAccountedFor, for one entry of the table
CheckValueToName(v) ==
    /\ v \in DOMAIN stopFilterValueToName
    /\ LET name == stopFilterValueToName[v]
           ok == name \in DOMAIN stopFilterNameToValue
       IN  tcheck' = [table |-> "valueToName", name |-> name, value |-> v,
                      found |-> ok,
                      backName |-> name,
                      backValue |-> IF ok THEN stopFilterNameToValue[name] ELSE -1]
    /\ UNCHANGED <<fpc, fnames, fidx, sf, fret>>

exceptFilter == <<tripVars, restVars, idVars, polyVars, paramVars, clientVars, productVars>>

InitFilter ==
    /\ fpc = "start"
    /\ fnames \in FilterLists
    /\ fidx = 0
    /\ sf = 0
    /\ fret = NoFilterRet
    /\ tcheck = NoCheck
    /\ InitNoTrip
    /\ InitIdle
    /\ InitNoPolyline
    /\ InitNoParams
    /\ InitNoClient
    /\ InitNoProducts

NextFilter ==
    \/ FromStringEnter /\ UNCHANGED exceptFilter
    \/ FromStringStep /\ UNCHANGED exceptFilter
    \/ FromStringReturn /\ UNCHANGED exceptFilter
    \/ \E name \in DOMAIN stopFilterNameToValue :
          CheckNameToValue(name) /\ UNCHANGED exceptFilter
    \/ \E v \in DOMAIN stopFilterValueToName :
          CheckValueToName(v) /\ UNCHANGED exceptFilter

SpecFilter == InitFilter /\ [][NextFilter]_vars

----------------------------------------------------------------------------
(* TripsRequest.toParams: the request time and its two parameters *)

\* A time.Time is an instant, counted in minutes from 2024-01-01 00:00 UTC,
\* and a location.  The days (0 = 1 January) and minutes of the day tried:
DayInputs == {14, 90, 166, 300}

MinuteInputs == {0, 59, 60, 495, 630, 885, 1380, 1439}

ZoneInputs == {"UTC", "Europe/Stockholm", "Asia/Tokyo"}

AtInputs ==
    {[utc |-> d * 1440 + m, zone |-> z] :
        d \in DayInputs, m \in MinuteInputs, z \in ZoneInputs}

\* the offset from UTC, in minutes, of a location at an instant; summer time
\* in Stockholm runs from 2024-03-31 01:00 UTC to 2024-10-27 01:00 UTC
ZoneOffset(zone, utc) ==
    IF zone = "Europe/Stockholm"
    THEN IF utc >= 90 * 1440 + 60 /\ utc < 300 * 1440 + 60 THEN 120 ELSE 60
    ELSE IF zone = "Asia/Tokyo" THEN 540
    ELSE 0

\* Time.In: the same instant in another location
In(t, zone) == [t EXCEPT !.zone = zone]

MonthLengths == <<31, 29, 31, 30, 31, 30, 31, 31, 30, 31, 30, 31>>

RECURSIVE MonthAndDay(_, _)
\* month and day of the month of a day of the year 2024 (0 = 1 January)
MonthAndDay(day, month) ==
    IF day < MonthLengths[month] THEN <<month, day + 1>>
    ELSE MonthAndDay(day - MonthLengths[month], month + 1)

\* the clock and calendar reading of t in its own location
LocalMinutes(t) == t.utc + ZoneOffset(t.zone, t.utc)

\* Time.Format("20060102")
FormatDate(t) ==
    LET md == MonthAndDay(LocalMinutes(t) \div 1440, 1)
    IN  FormatZeroPadded(2024, 4) \o FormatZeroPadded(md[1], 2) \o FormatZeroPadded(md[2], 2)

\* Time.Format("1504")
FormatClock(t) ==
    LET m == LocalMinutes(t) % 1440
    IN  FormatZeroPadded(m \div 60, 2) \o FormatZeroPadded(m % 60, 2)

\* the date and time parameters TripsRequest.toParams sets
ToParams ==
    /\ qpc = "start"
    /\ params' = [itd_date |-> FormatDate(reqAt), itd_time |-> FormatClock(reqAt)]
    /\ qpc' = "done"
    /\ UNCHANGED reqAt

exceptParams == <<tripVars, restVars, idVars, polyVars, filterVars, clientVars, productVars>>

InitParams ==
    /\ qpc = "start"
    /\ reqAt \in AtInputs
    /\ params = NoParams
    /\ InitNoTrip
    /\ InitIdle
    /\ InitNoPolyline
    /\ InitNoFilter
    /\ InitNoClient
    /\ InitNoProducts

NextParams == ToParams /\ UNCHANGED exceptParams

SpecParams == InitParams /\ [][NextParams]_vars

----------------------------------------------------------------------------
(* The journey-planner client calls: v1 JourneyDetail, Reconstruction,   *)
(* Trips and v2 Trips, StopFinder (called with a StopFinderSearchRequest) *)

ClientOps == {"JourneyDetail", "Reconstruction", "Trips", "TripsV2", "StopFinder"}

\* the search names tried
NameInputs == {"", "T-Centralen"}

\* what httpClient.Do and the reading of the body can produce: an error of
\* the transport, or a response with a status and a body that can or
\* cannot be read to its end and decoded
Responses ==
    {[transport |-> "err", status |-> 0, read |-> "none", body |-> "none"]}
    \cup [transport : {"ok"}, status : {200, 404, 500},
          read : {"ok", "err"}, body : {"decodable", "undecodable"}]

\* variant of StopFinderValid: the name is not tested
StopFinderValidNoName(tfr) ==
    IF tfr.Type # "coord" /\ tfr.Type # "any" THEN "type must be either coord or any"
    ELSE IF tfr.AnyObjFilter < 0 THEN "any_obj_filter is required"
    ELSE "nil"

\* stopFinderTrafiklabRequest.Valid
StopFinderValid(tfr) ==
    IF tfr.Name = "" THEN "name is required"
    ELSE IF tfr.Type # "coord" /\ tfr.Type # "any" THEN "type must be either coord or any"
    ELSE IF tfr.AnyObjFilter < 0 THEN "any_obj_filter is required"
    ELSE "nil"

\* StopFinderSearchRequest.toTrafiklabRequest, once StopFilterFromString has
\* returned filter without an error
ToTrafiklabRequest(name, filter) ==
    [Name |-> name, Type |-> "any", AnyObjFilter |-> filter]

\* the methods that compare the status of the response with 200
ChecksStatus(op) == op \in {"Trips", "TripsV2", "StopFinder"}

\* the error a method returns for what httpClient.Do produced, "nil" for
\* none.  Trips of v2 reads the whole body before it looks at the status;
\* the other methods decode from the body's stream, where an error of the
\* reading is an error of the decoding.
ResponseError(op, resp) ==
    IF resp.transport = "err" THEN "failed request"
    ELSE IF op = "TripsV2" /\ resp.read = "err" THEN "failed to read response body"
    ELSE IF ChecksStatus(op) /\ resp.status # 200 THEN "status code"
    ELSE IF resp.read = "err" \/ resp.body = "undecodable" THEN "failed to decode response"
    ELSE "nil"

\* the steps of JourneyDetail, Reconstruction and the two Trips before the
\* request is sent (making the request, its parameters, the validation of
\* the v2 request): they succeed or end the call with an error
ClientPrepare ==
    /\ cpc = "start"
    /\ cop # "StopFinder"
    /\ IF cprep = "err"
       THEN /\ cret' = [returned |-> TRUE, err |-> "failed to create request"]
            /\ cpc' = "done"
       ELSE /\ cpc' = "send"
            /\ UNCHANGED cret
    /\ UNCHANGED <<cop, cname, cprep, sent, cresp>>
    /\ UNCHANGED <<tripVars, restVars, idVars, polyVars, filterVars, paramVars, productVars>>

\* StopFinder calls toTrafiklabRequest, which calls StopFilterFromString
StopFinderConvert ==
    /\ cpc = "start"
    /\ cop = "StopFinder"
    /\ fpc = "off"
    /\ fpc' = "start"
    /\ cpc' = "filter"
    /\ UNCHANGED <<cop, cname, cprep, sent, cresp, cret>>
    /\ UNCHANGED <<fnames, fidx, sf, fret, tcheck>>
    /\ UNCHANGED <<tripVars, restVars, idVars, polyVars, paramVars, productVars>>

\* StopFinder once StopFilterFromString has returned: the error of the
\* conversion, the validation, the making of the request
StopFinderValidate ==
    /\ cpc = "filter"
    /\ fpc = "done"
    /\ LET err == IF fret.err # "nil" THEN fret.err
                  ELSE IF StopFinderValid(ToTrafiklabRequest(cname, fret.value)) # "nil"
                       THEN StopFinderValid(ToTrafiklabRequest(cname, fret.value))
                  ELSE IF cprep = "err" THEN "failed to create request"
                  ELSE "nil"
       IN  IF err # "nil"
           THEN /\ cret' = [returned |-> TRUE, err |-> err]
                /\ cpc' = "done"
           ELSE /\ cpc' = "send"
                /\ UNCHANGED cret
    /\ UNCHANGED <<cop, cname, cprep, sent, cresp>>
    /\ UNCHANGED <<tripVars, restVars, idVars, polyVars, filterVars, paramVars, productVars>>

\* c.httpClient.Do(req)
ClientDo(resp) ==
    /\ cpc = "send"
    /\ sent' = sent + 1
    /\ cresp' = resp
    /\ cpc' = "responded"
    /\ UNCHANGED <<cop, cname, cprep, cret>>
    /\ UNCHANGED <<tripVars, restVars, idVars, polyVars, filterVars, paramVars, productVars>>

\* the rest of the method: the tests of the response, the decoding, the return
ClientHandle ==
    /\ cpc = "responded"
    /\ cret' = [returned |-> TRUE, err |-> ResponseError(cop, cresp)]
    /\ cpc' = "done"
    /\ UNCHANGED <<cop, cname, cprep, sent, cresp>>
    /\ UNCHANGED <<tripVars, restVars, idVars, polyVars, filterVars, paramVars, productVars>>

InitClient ==
    /\ cpc = "start"
    /\ cop \in ClientOps
    /\ cprep \in {"ok", "err"}
    /\ IF cop = "StopFinder"
       THEN cname \in NameInputs /\ fnames \in FilterLists
       ELSE cname = "" /\ fnames = <<>>
    /\ sent = 0
    /\ cresp = NoResponse
    /\ cret = NoClientRet
    /\ fpc = "off"
    /\ fidx = 0
    /\ sf = 0
    /\ fret = NoFilterRet
    /\ tcheck = NoCheck
    /\ InitNoTrip
    /\ InitIdle
    /\ InitNoPolyline
    /\ InitNoParams
    /\ InitNoProducts

NextClient ==
    \/ ClientPrepare
    \/ StopFinderConvert
    \/ FromStringEnter /\ UNCHANGED exceptFilter
    \/ FromStringStep /\ UNCHANGED exceptFilter
    \/ FromStringReturn /\ UNCHANGED exceptFilter
    \/ StopFinderValidate
    \/ \E resp \in Responses : ClientDo(resp)
    \/ ClientHandle

SpecClient == InitClient /\ [][NextClient]_vars

----------------------------------------------------------------------------
(* TripsRequest.params of the v1 journey planner: the parameter products *)

MaxProducts == 2

ProductRefTrain == 1
ProductRefMetro == 2
ProductRefTram == 4
ProductRefBus == 8
ProductRefBoat == 96
ProductRefCommute == 128

ProductRefs ==
    {ProductRefTrain, ProductRefMetro, ProductRefTram,
     ProductRefBus, ProductRefBoat, ProductRefCommute}

ProductLists == UNION {[1..len -> ProductRefs] : len \in 0..MaxProducts}

RECURSIVE SumProducts(_)
\* the sum a loop over the list builds (no sum of the model leaves int32)
SumProducts(ps) ==
    IF Len(ps) = 0 THEN 0 ELSE ps[1] + SumProducts(Tail(ps))

\* the value of products after the block guarded by AvoidProducts: the sum
\* of the six codes less the codes the loop of that block ranges over
AvoidBlock(products, avoid, before) ==
    IF Len(avoid) > 0
    THEN [set |-> TRUE,
          value |-> ProductRefTrain + ProductRefMetro + ProductRefTram
                    + ProductRefBus + ProductRefBoat + ProductRefCommute
                    - SumProducts(products)]
    ELSE before

\* the value of products after the block guarded by Products
ProductsBlock(products, before) ==
    IF Len(products) > 0
    THEN [set |-> TRUE, value |-> SumProducts(products)]
    ELSE before

ParamsProducts ==
    /\ rpc = "start"
    /\ prodParam' = ProductsBlock(reqProducts, AvoidBlock(reqProducts, reqAvoid, prodParam))
    /\ rpc' = "done"
    /\ UNCHANGED <<reqProducts, reqAvoid>>

exceptProducts == <<tripVars, restVars, idVars, polyVars, filterVars, paramVars, clientVars>>

InitProducts ==
    /\ rpc = "start"
    /\ reqProducts \in ProductLists
    /\ reqAvoid \in ProductLists
    /\ prodParam = NoProductsParam
    /\ InitNoTrip
    /\ InitIdle
    /\ InitNoPolyline
    /\ InitNoFilter
    /\ InitNoParams
    /\ InitNoClient

NextProducts == ParamsProducts /\ UNCHANGED exceptProducts

SpecProducts == InitProducts /\ [][NextProducts]_vars

----------------------------------------------------------------------------
(* Properties of Trip.CombineWalks *)

IsWalk(leg) == leg.Type = "WALK"

\* the positions of ls that satisfy test, and the rank of a position among them
RankIn(set, p) == Cardinality({q \in set : q <= p})

\* ls holds exactly the elements of src at the positions of set, in order
IsSelection(ls, src, set) ==
    /\ Len(ls) = Cardinality(set)
    /\ \A p \in set : ls[RankIn(set, p)] = src[p]

MergeDone == pc = "cw_merge" /\ k > Len(legs)
PruneDone == pc = "cw_prune" /\ k > Len(combinedLegs)
Returned(op) == pc = "idle" /\ ret.op = op

\* a position of the merged list is intermediate: a non-WALK leg occurs
\* earlier and the position is not the last one
IntermediateAt(ls, p) ==
    /\ \E q \in 1..(p - 1) : ~IsWalk(ls[q])
    /\ p # Len(ls)

KeptAt(ls, p) ==
    \/ ~IsWalk(ls[p])
    \/ (IsWalk(ls[p]) /\ ~IntermediateAt(ls, p) /\ ls[p].Distance > 40)
    \/ (IsWalk(ls[p]) /\ IntermediateAt(ls, p) /\ ls[p].Distance > 150)

\* C1: when the second pass of CombineWalks has ended, the list it built holds
\* exactly the legs of the merged list that are not WALK, or WALK, not
\* intermediate and longer than 40, or WALK, intermediate and longer than 150,
\* in the order of the merged list.
C1_PruneRule ==
    PruneDone =>
        IsSelection(newLegs, combinedLegs,
                    {p \in 1..Len(combinedLegs) : KeptAt(combinedLegs, p)})

\* the second pass has ended on a merged list [WALK 41, BUS, WALK 150, BUS]:
\* the leading walk of 41 is kept, the intermediate walk of 150 is dropped
C1_Witness ==
    /\ PruneDone
    /\ Len(combinedLegs) = 4
    /\ IsWalk(combinedLegs[1]) /\ combinedLegs[1].Distance = 41
    /\ ~IsWalk(combinedLegs[2])
    /\ IsWalk(combinedLegs[3]) /\ combinedLegs[3].Distance = 150
    /\ ~IsWalk(combinedLegs[4])
    /\ Len(newLegs) = 3

RECURSIVE SumDistance(_, _, _)
SumDistance(ls, a, b) ==
    IF a > b THEN 0 ELSE ls[a].Distance + SumDistance(ls, a + 1, b)

\* the first positions of the maximal runs of WALK legs, and every non-WALK position
RunStarts(ls) ==
    {p \in 1..Len(ls) : ~IsWalk(ls[p]) \/ p = 1 \/ ~IsWalk(ls[p - 1])}

\* the last position of the maximal run of WALK legs that starts at p
RunEnd(ls, p) ==
    CHOOSE q \in p..Len(ls) :
        /\ \A r \in p..q : IsWalk(ls[r])
        /\ (q = Len(ls) \/ ~IsWalk(ls[q + 1]))

\* C2: when the first pass of CombineWalks has ended, combinedLegs holds, in
\* order, every non-WALK leg of the trip unchanged and, for every maximal run
\* of consecutive WALK legs, one WALK leg with the sum of the run's distances,
\* the origin of the run's first leg and the destination of its last leg.
C2_MergeRuns ==
    MergeDone =>
        LET starts == RunStarts(legs)
        IN  /\ Len(combinedLegs) = Cardinality(starts)
            /\ \A p \in starts :
                 LET m == combinedLegs[RankIn(starts, p)]
                 IN  IF ~IsWalk(legs[p])
                     THEN m = legs[p]
                     ELSE /\ IsWalk(m)
                          /\ m.Distance = SumDistance(legs, p, RunEnd(legs, p))
                          /\ m.Origin = legs[p].Origin
                          /\ m.Destination = legs[RunEnd(legs, p)].Destination

\* the first pass has ended on a trip with a run of three WALK legs after a
\* non-WALK leg: two entries are left
C2_Witness ==
    /\ MergeDone
    /\ Len(legs) = 4
    /\ ~IsWalk(legs[1]) /\ IsWalk(legs[2]) /\ IsWalk(legs[3]) /\ IsWalk(legs[4])
    /\ Len(combinedLegs) = 2
    /\ combinedLegs[2].Distance = legs[2].Distance + legs[3].Distance + legs[4].Distance

Shapes(ls) == [n \in 1..Len(ls) |-> <<ls[n].Type, ls[n].Distance>>]

ExampleTrip == <<<<"WALK", 10>>, <<"WALK", 20>>, <<"BUS", 0>>, <<"WALK", 50>>>>

\* C3 as stated: CombineWalks on [WALK 10, WALK 20, BUS, WALK 50] leaves
\* [WALK 30, BUS, WALK 50].
C3_ExampleAsStated ==
    (Returned("CombineWalks") /\ Shapes(entryLegs) = ExampleTrip) =>
        Shapes(legs) = <<<<"WALK", 30>>, <<"BUS", 0>>, <<"WALK", 50>>>>

\* C3 amended: CombineWalks on [WALK 10, WALK 20, BUS, WALK 50] leaves
\* [BUS, WALK 50]: the merged leading walk of 30 is not longer than 40 and is
\* dropped, the trailing walk of 50 survives unchanged.
C3_Example ==
    (Returned("CombineWalks") /\ Shapes(entryLegs) = ExampleTrip) =>
        /\ Shapes(legs) = <<<<"BUS", 0>>, <<"WALK", 50>>>>
        /\ legs[1] = entryLegs[3]
        /\ legs[2] = entryLegs[4]

\* CombineWalks has returned from a call on the example trip
C3_Witness ==
    /\ Returned("CombineWalks")
    /\ Shapes(entryLegs) = ExampleTrip
    /\ Len(legs) = 2

----------------------------------------------------------------------------
(* Properties of Trip.EachLegContextual *)

SetMax(S) == CHOOSE x \in S : \A y \in S : y <= x
SetMin(S) == CHOOSE x \in S : \A y \in S : x <= y

\* 1-based positions of the non-WALK legs before, and after, Go index at
TransportBefore(ls, at) == {j \in 1..at : ~IsWalk(ls[j])}
TransportAfter(ls, at) == {j \in (at + 2)..Len(ls) : ~IsWalk(ls[j])}

\* C4: whenever the visitor is invoked for index i, prevLeg is the leg at i-1
\* (Leg{} when i = 0), nextLeg the leg at i+1 (Leg{} at the last index),
\* prevTransportLeg the nearest non-WALK leg before i and nextTransportLeg the
\* first non-WALK leg after i (Leg{} when there is none), compared by content.
C4_Context ==
    pc = "elc_call" =>
        /\ Deref(prevLeg, legs) = (IF i = 0 THEN ZeroLeg ELSE legs[i])
        /\ Deref(nextLeg, legs) = (IF i = Len(legs) - 1 THEN ZeroLeg ELSE legs[i + 2])
        /\ Deref(prevTransportLeg, legs) =
              (IF TransportBefore(legs, i) = {} THEN ZeroLeg
               ELSE legs[SetMax(TransportBefore(legs, i))])
        /\ Deref(nextTransportLeg, legs) =
              (IF TransportAfter(legs, i) = {} THEN ZeroLeg
               ELSE legs[SetMin(TransportAfter(legs, i))])

\* the visitor is about to be invoked for index 2 of [BUS, WALK, WALK, BUS]:
\* the nearest transport leg before it is not the previous leg
C4_Witness ==
    /\ pc = "elc_call"
    /\ i = 2
    /\ Len(legs) = 4
    /\ ~IsWalk(legs[1]) /\ IsWalk(legs[2]) /\ IsWalk(legs[3]) /\ ~IsWalk(legs[4])
    /\ Deref(prevTransportLeg, legs) = legs[1]
    /\ Deref(nextTransportLeg, legs) = legs[4]

\* C5: the visitor is invoked for the indexes 0, 1, 2, ... in this order, each
\* time with the leg at that index; when EachLegContextual has returned and
\* the visitor never returned an error, it was invoked once per leg and the
\* result is nil (never invoked for a trip without legs).
C5_OncePerLegInOrder ==
    /\ \A j \in 1..Len(calls) :
         /\ calls[j].i = j - 1
         /\ calls[j].leg = ElemPtr(j - 1)
         /\ j <= Len(legs)
    /\ (Returned("EachLegContextual") /\ \A j \in 1..Len(calls) : calls[j].err = "nil") =>
         /\ Len(calls) = Len(legs)
         /\ ret.err = "nil"

\* EachLegContextual has returned nil after the visitor accepted all four legs
C5_Witness ==
    /\ Returned("EachLegContextual")
    /\ ret.err = "nil"
    /\ Len(legs) = 4
    /\ Len(calls) = 4

\* C6: an invocation in which the visitor returned an error is the last one,
\* EachLegContextual has returned and its result is that error.
C6_ErrorStops ==
    \A j \in 1..Len(calls) :
        calls[j].err # "nil" =>
            /\ j = Len(calls)
            /\ Returned("EachLegContextual")
            /\ ret.err = calls[j].err

\* the visitor returned an error at index 1 of a trip of four legs
C6_Witness ==
    /\ Returned("EachLegContextual")
    /\ Len(legs) = 4
    /\ Len(calls) = 2
    /\ calls[2].err = "errB"
    /\ ret.err = "errB"

WalkBusWalk == pc = "elc_call" /\ i = 1 /\ Len(legs) = 3
               /\ IsWalk(legs[1]) /\ ~IsWalk(legs[2]) /\ IsWalk(legs[3])

\* C7 as stated: at index 1 of [WALK, BUS, WALK] prevLeg, prevTransportLeg and
\* nextTransportLeg are all Leg{}.
C7_BusContextAsStated ==
    WalkBusWalk =>
        /\ Deref(prevLeg, legs) = ZeroLeg
        /\ Deref(prevTransportLeg, legs) = ZeroLeg
        /\ Deref(nextTransportLeg, legs) = ZeroLeg

\* C7 amended: at index 1 of [WALK, BUS, WALK] prevTransportLeg and
\* nextTransportLeg are Leg{}, and prevLeg is the WALK leg at index 0.
C7_BusContext ==
    WalkBusWalk =>
        /\ Deref(prevLeg, legs) = legs[1]
        /\ Deref(prevLeg, legs) # ZeroLeg
        /\ Deref(prevTransportLeg, legs) = ZeroLeg
        /\ Deref(nextTransportLeg, legs) = ZeroLeg

\* the visitor is about to be invoked for the BUS leg of [WALK, BUS, WALK]
C7_Witness == WalkBusWalk /\ Deref(prevLeg, legs).Type = "WALK"

----------------------------------------------------------------------------
(* Properties of the identifier conversions *)

AllAsciiDigits(str) == \A n \in 1..Len(str) : IsAsciiDigit(str[n])

\* ConvertIDToHafas has returned
HafasReturned == idpc \in {"hafas", "efa"}

\* C8: for a site ID of 1 to 7 decimal digits and a prefix of 9 decimal
\* digits, ConvertHafasToEFA(ConvertIDToHafas(sid), prefix) succeeds and
\* returns the prefix followed by sid left-padded with zeros to 7 digits.
C8_RoundTrip ==
    (idpc = "efa" /\ Len(sid) \in 1..7 /\ AllAsciiDigits(sid)) =>
        /\ ~efaErr
        /\ efaID = prefix \o Zeros(7 - Len(sid)) \o sid

\* C9: for an input of decimal digits only, ConvertIDToHafas returns no error
\* and, for 1 to 7 bytes, the 9 bytes '3', value / 100000 on two digits, '1',
\* value % 100000 on five digits; for more than 7 bytes, the input itself.
C9_HafasLayout ==
    (HafasReturned /\ Len(sid) >= 1 /\ AllAsciiDigits(sid)) =>
        /\ ~hafasErr
        /\ Len(sid) <= 7 =>
             /\ Len(hafasID) = 9
             /\ AllAsciiDigits(hafasID)
             /\ hafasID[1] = "3"
             /\ DigitsValue(SubSeq(hafasID, 2, 3)) = DigitsValue(sid) \div 100000
             /\ hafasID[4] = "1"
             /\ DigitsValue(SubSeq(hafasID, 5, 9)) = DigitsValue(sid) % 100000
        /\ Len(sid) > 7 => hafasID = sid

\* ConvertIDToHafas has returned "314104401" for "1404401"
C9_Witness ==
    /\ HafasReturned
    /\ sid = <<"1", "4", "0", "4", "4", "0", "1">>
    /\ hafasID = <<"3", "1", "4", "1", "0", "4", "4", "0", "1">>
    /\ ~hafasErr

\* C10: for an input with a byte that is no decimal digit, whatever its
\* length, ConvertIDToHafas returns an error and no ID.
C10_NonNumericRejected ==
    (HafasReturned /\ ~AllAsciiDigits(sid)) =>
        /\ hafasErr
        /\ hafasID = <<>>

\* both arguments are strings of exactly nine characters '0'..'9', the first
\* of hafasID being '3'
WellFormedEfaArgs ==
    /\ Len(hafasID) = 9 /\ AllAsciiDigits(hafasID) /\ hafasID[1] = "3"
    /\ Len(prefix) = 9 /\ AllAsciiDigits(prefix)

DirectReturned == idpc = "efa_direct"

\* C11: for a hafasID of 9 decimal digits that starts with 3 and a prefix of 9
\* decimal digits, ConvertHafasToEFA succeeds and returns the 16 digits
\* prefix, h[2], h[1], h[4], h[5], h[6], h[7], h[8] (0-based positions).
C11_Extraction ==
    (DirectReturned /\ WellFormedEfaArgs) =>
        /\ ~efaErr
        /\ Len(efaID) = 16
        /\ AllAsciiDigits(efaID)
        /\ SubSeq(efaID, 1, 9) = prefix
        /\ efaID[10] = hafasID[3]
        /\ efaID[11] = hafasID[2]
        /\ \A p \in 12..16 : efaID[p] = hafasID[p - 7]

\* ConvertHafasToEFA has returned "1234567894004400" for "304004400" and
\* "123456789": the digits at positions 1 and 2 differ and are exchanged
C11_Witness ==
    /\ DirectReturned
    /\ hafasID = <<"3", "0", "4", "0", "0", "4", "4", "0", "0">>
    /\ prefix = <<"1", "2", "3", "4", "5", "6", "7", "8", "9">>
    /\ efaID = prefix \o <<"4", "0", "0", "4", "4", "0", "0">>
    /\ ~efaErr

\* C12: ConvertHafasToEFA returns an error and the empty string unless
\* hafasID is nine characters '0'..'9' starting with '3' and prefix is nine
\* characters '0'..'9'.
C12_RejectsMalformed ==
    (DirectReturned /\ ~WellFormedEfaArgs) =>
        /\ efaErr
        /\ efaID = <<>>

----------------------------------------------------------------------------
(* Properties of Polyline.LatLng *)

RECURSIVE SumAxis(_, _, _)
\* the sum of the values of axis (1 = x, 2 = y) of the first n pairs of c
SumAxis(c, n, axis) ==
    IF n = 0 THEN 0 ELSE SumAxis(c, n - 1, axis) + c[2 * (n - 1) + axis]

C14_AbsoluteRegrouped ==
    (ppc = "done" /\ ~delta) =>
        /\ 2 * Len(path) = Len(crd)
        /\ \A n \in 1..Len(path) : path[n] = <<crd[2 * n - 1], crd[2 * n]>>

\* C15: a call on an odd number of values ends with a reported error and
\* without a result; it does not end in a panic.
C15_OddLengthReported ==
    (Len(crd) % 2 = 1 /\ ppc \in {"done", "panic", "error"}) =>
        /\ ppc = "error"
        /\ path = <<>>

----------------------------------------------------------------------------
(* Properties of StopFilter *)

\* the positions of the bits set in v
BitsOf(v) == {b \in 0..5 : (v \div (2 ^ b)) % 2 = 1}

RecognizedNames ==
    {"none", "suburb", "stop", "street", "singlehouse", "unknown2", "poi"}

NamedCategories == RecognizedNames \ {"none"}

NamesGiven == {fnames[n] : n \in 1..Len(fnames)}

C17_TablesInverse ==
    /\ DOMAIN stopFilterNameToValue = RecognizedNames
    /\ \A n \in DOMAIN stopFilterNameToValue :
         /\ stopFilterNameToValue[n] \in DOMAIN stopFilterValueToName
         /\ stopFilterValueToName[stopFilterNameToValue[n]] = n
    /\ \A v \in DOMAIN stopFilterValueToName :
         /\ stopFilterValueToName[v] \in DOMAIN stopFilterNameToValue
         /\ stopFilterNameToValue[stopFilterValueToName[v]] = v
    /\ \A n \in NamedCategories :
         Cardinality(BitsOf(stopFilterNameToValue[n])) = 1
    /\ \A n, m \in NamedCategories :
         n # m => stopFilterNameToValue[n] # stopFilterNameToValue[m]
    /\ stopFilterNameToValue["none"] = 0
    /\ tcheck.table = "nameToValue" =>
         tcheck.found /\ tcheck.backName = tcheck.name
    /\ tcheck.table = "valueToName" =>
         tcheck.found /\ tcheck.backValue = tcheck.value

\* the name poi has been looked up: its value 32 maps back to poi
C17_Witness ==
    /\ tcheck.table = "nameToValue"
    /\ tcheck.name = "poi"
    /\ tcheck.value = 32
    /\ tcheck.found
    /\ tcheck.backName = "poi"

----------------------------------------------------------------------------
(* Further properties of Trip.CombineWalks *)

\* the legs of ls carry the index values base, base + 1, ...
ContiguousFrom(ls, base) == \A n \in 1..Len(ls) : ls[n].Idx = base + n - 1

\* C18: when CombineWalks has returned for a trip whose legs carried
\* contiguous Idx values from the base 0 or 1, the legs of the result carry
\* contiguous Idx values from the same base.
C18_IdxContiguous ==
    \A base \in {0, 1} :
        (Returned("CombineWalks") /\ entryLegs # <<>> /\ ContiguousFrom(entryLegs, base))
            => ContiguousFrom(legs, base)

AllWalk(ls) == \A n \in 1..Len(ls) : IsWalk(ls[n])

\* C19: for a trip of WALK legs only (or of no legs) the second pass of
\* CombineWalks never sets intermediate, and the result is the empty list
\* when the legs' total distance is at most 40, else one WALK leg with the
\* total distance.
C19_AllWalk ==
    /\ (pc = "cw_prune" /\ AllWalk(entryLegs)) => ~intermediate
    /\ (Returned("CombineWalks") /\ AllWalk(entryLegs)) =>
           IF SumDistance(entryLegs, 1, Len(entryLegs)) <= 40
           THEN legs = <<>>
           ELSE /\ Len(legs) = 1
                /\ IsWalk(legs[1])
                /\ legs[1].Distance = SumDistance(entryLegs, 1, Len(entryLegs))

\* three walks of 10, 10 and 20 have given the empty list
C19_Witness ==
    /\ Returned("CombineWalks")
    /\ Shapes(entryLegs) = <<<<"WALK", 10>>, <<"WALK", 10>>, <<"WALK", 20>>>>
    /\ legs = <<>>

----------------------------------------------------------------------------
(* Properties of TripsRequest.toParams *)

\* C20: the parameters itd_date and itd_time set by toParams are the date
\* and the time of At in the location Europe/Stockholm, whatever the
\* location of At is.
C20_StockholmLocal ==
    qpc = "done" =>
        /\ params.itd_date = FormatDate(In(reqAt, "Europe/Stockholm"))
        /\ params.itd_time = FormatClock(In(reqAt, "Europe/Stockholm"))

----------------------------------------------------------------------------
(* Properties of the journey-planner client calls *)

BadStopFinderInput ==
    \/ cname = ""
    \/ Len(fnames) = 0
    \/ ~(NamesGiven \subseteq RecognizedNames)

\* C21: StopFinder called with an empty search name, an empty filter list or
\* a filter list holding an unrecognized name sends no request and returns
\* an error.
C21_StopFinderRejects ==
    (cop = "StopFinder" /\ BadStopFinderInput) =>
        /\ sent = 0
        /\ cpc \notin {"send", "responded"}
        /\ cpc = "done" => (cret.returned /\ cret.err # "nil")

\* StopFinder has returned "name is required" for the empty name and the
\* filter stop, without a request
C21_Witness ==
    /\ cop = "StopFinder"
    /\ cpc = "done"
    /\ cname = ""
    /\ fnames = <<"stop">>
    /\ cret = [returned |-> TRUE, err |-> "name is required"]
    /\ sent = 0

\* the response is a failure: the transport failed, the status is not 200,
\* or the body cannot be read or decoded
FailedResponse(resp) ==
    \/ resp.transport = "err"
    \/ resp.status # 200
    \/ resp.read = "err"
    \/ resp.body = "undecodable"

\* C22: a client call sends at most one request, and a call that got a
\* transport error, a status other than 200 or an undecodable body returns
\* an error.
C22_OneRequest ==
    /\ sent <= 1
    /\ (cpc = "done" /\ sent = 1 /\ FailedResponse(cresp)) =>
           (cret.returned /\ cret.err # "nil")

----------------------------------------------------------------------------
(* The second pass of Trip.CombineWalks, its frame and its result *)

\* position p of ls lies immediately after a non-WALK leg and immediately
\* before a non-WALK leg
StrictlyBetween(ls, p) ==
    /\ p > 1
    /\ p < Len(ls)
    /\ ~IsWalk(ls[p - 1])
    /\ ~IsWalk(ls[p + 1])

\* C23: in the second pass, the value of intermediate used for a WALK leg of
\* the merged list is true exactly when the leg lies immediately between
\* two non-WALK legs of the merged list.
C23_IntermediateIsBetween ==
    (pc = "cw_prune" /\ k > 1 /\ IsWalk(combinedLegs[k - 1])) =>
        (intermediate <=> StrictlyBetween(combinedLegs, k - 1))

\* the second pass has just classified a WALK leg between two non-WALK legs
\* as intermediate
C23_Witness ==
    /\ pc = "cw_prune"
    /\ k = 3
    /\ Len(combinedLegs) = 3
    /\ IsWalk(combinedLegs[2])
    /\ StrictlyBetween(combinedLegs, 2)
    /\ intermediate

\* the legs of ls that are not WALK legs, in order
NonWalks(ls) == SelectSeq(ls, LAMBDA l : ~IsWalk(l))

\* C24: while CombineWalks runs, the leg list the trip had at the call and
\* the other attributes of the trip stay as they were; when it has returned,
\* the non-WALK legs of the trip are those of the input, unchanged and in
\* the same order, and the other attributes of the trip are unchanged.
C24_Frame ==
    /\ pc \in {"cw_merge", "cw_prune"} =>
           (legs = entryLegs /\ tripRest = TripAttributes)
    /\ Returned("CombineWalks") =>
           (NonWalks(legs) = NonWalks(entryLegs) /\ tripRest = TripAttributes)

\* CombineWalks has returned the two BUS legs of WALK 10, BUS, WALK 20, BUS
C24_Witness ==
    /\ Returned("CombineWalks")
    /\ Shapes(entryLegs) = <<<<"WALK", 10>>, <<"BUS", 0>>, <<"WALK", 20>>, <<"BUS", 0>>>>
    /\ legs = <<entryLegs[2], entryLegs[4]>>
    /\ tripRest = TripAttributes

\* C25: the list CombineWalks returns is the result of the whole call on the
\* list it was called with, and a further call on the returned list returns
\* the same list.
C25_Idempotent ==
    Returned("CombineWalks") =>
        /\ legs = CombineWalksResult(entryLegs)
        /\ CombineWalksResult(legs) = legs

\* a second call has returned: it was called with a merged WALK leg (from
\* stop 1 to stop 3), the result of an earlier call, and returned it as it is
C25_Witness ==
    /\ Returned("CombineWalks")
    /\ Len(entryLegs) = 2
    /\ IsWalk(entryLegs[1]) /\ entryLegs[1].Origin = 1 /\ entryLegs[1].Destination = 3
    /\ ~IsWalk(entryLegs[2])
    /\ legs = entryLegs

\* C26: the list CombineWalks returns has no two adjacent WALK legs, a WALK
\* leg at its first or last position has a distance above 40, and a WALK leg
\* immediately between two non-WALK legs has a distance above 150.
C26_ResultShape ==
    Returned("CombineWalks") =>
        /\ \A p \in 1..(Len(legs) - 1) : ~(IsWalk(legs[p]) /\ IsWalk(legs[p + 1]))
        /\ (Len(legs) > 0 /\ IsWalk(legs[1])) => legs[1].Distance > 40
        /\ (Len(legs) > 0 /\ IsWalk(legs[Len(legs)])) => legs[Len(legs)].Distance > 40
        /\ \A p \in 1..Len(legs) :
             (IsWalk(legs[p]) /\ StrictlyBetween(legs, p)) => legs[p].Distance > 150

\* CombineWalks has returned WALK 41, BUS, WALK 151, BUS
C26_Witness ==
    /\ Returned("CombineWalks")
    /\ Shapes(legs) = <<<<"WALK", 41>>, <<"BUS", 0>>, <<"WALK", 151>>, <<"BUS", 0>>>>

----------------------------------------------------------------------------
(* Properties of TripsRequest.params (v1) *)

\* C27: with AvoidProducts not empty and Products empty, the parameter
\* products is set to 239, the sum of the six product codes, less the sum
\* of the codes of AvoidProducts.
C27_AvoidProducts ==
    (rpc = "done" /\ Len(reqAvoid) > 0 /\ Len(reqProducts) = 0) =>
        prodParam = [set |-> TRUE, value |-> 239 - SumProducts(reqAvoid)]

----------------------------------------------------------------------------
(* The references EachLegContextual hands to the visitor *)

\* the reference is one of the placeholders &Leg{}
IsPlaceholder(ptr) == ptr.kind = "alloc" /\ ptr.val = ZeroLeg

\* the reference is the address of an element of trip.Legs: what is written
\* through it is written to the trip's leg list
RefersToTripLeg(ptr) == ptr.kind = "elem" /\ ptr.at \in 0..(Len(legs) - 1)

\* C28: each of the five references of every invocation of the visitor is a
\* placeholder or the address of an element of the trip's leg list.
C28_ReferencesAlias ==
    \A n \in 1..Len(calls) :
        /\ RefersToTripLeg(calls[n].leg)
        /\ IsPlaceholder(calls[n].prevLeg) \/ RefersToTripLeg(calls[n].prevLeg)
        /\ IsPlaceholder(calls[n].prevTransportLeg) \/ RefersToTripLeg(calls[n].prevTransportLeg)
        /\ IsPlaceholder(calls[n].nextLeg) \/ RefersToTripLeg(calls[n].nextLeg)
        /\ IsPlaceholder(calls[n].nextTransportLeg) \/ RefersToTripLeg(calls[n].nextTransportLeg)

----------------------------------------------------------------------------
(* EachLegContextual while CombineWalks replaces the leg list *)

----------------------------------------------------------------------------
(* StopFilter.Has on the filters StopFilterFromString returns *)

FromStringSucceeded == fpc = "done" /\ fret.err = "nil"

\* C30 as stated: for the filter returned for a list of recognized names,
\* Has of the value of a recognized name holds exactly when the name is in
\* the list, the name none included.
C30_HasIffListed ==
    FromStringSucceeded =>
        \A n \in RecognizedNames :
            Has(fret.value, stopFilterNameToValue[n]) <=> n \in NamesGiven

\* C30, amended: for the filter returned for a list of recognized names, Has
\* of the value of one of the six named categories holds exactly when the
\* name is in the list; Has of the value of none, which is 0, never holds,
\* whether none is in the list or not.
C30_HasIffListedCategory ==
    FromStringSucceeded =>
        /\ \A n \in NamedCategories :
               Has(fret.value, stopFilterNameToValue[n]) <=> n \in NamesGiven
        /\ ~Has(fret.value, stopFilterNameToValue["none"])

\* the filter returned for none, poi has poi, has not stop and has not none
C30_Witness ==
    /\ FromStringSucceeded
    /\ fnames = <<"none", "poi">>
    /\ Has(fret.value, stopFilterNameToValue["poi"])
    /\ ~Has(fret.value, stopFilterNameToValue["stop"])
    /\ ~Has(fret.value, stopFilterNameToValue["none"])

====
